---------------------------- MODULE Spec2Model ----------------------------
(***************************************************************************)
(* Model of crazyflie_mpc/src/dynamics_ionocraft.py: class IonoCraft, the  *)
(* one-step rigid-body simulator of an ionocraft (constructor and          *)
(* simulate).                                                              *)
(*                                                                         *)
(* Numbers.  The code computes in float64.  The model computes in exact    *)
(* decimal-scaled rationals: a number is <<n, d, e>> and stands for        *)
(* (n / d) * 10^e, kept in the canonical form d > 0, gcd(n, d) = 1,        *)
(* d coprime to 10, n not a multiple of 10, and zero = <<0, 1, 0>>, so     *)
(* that equal numbers are equal tuples.  Rounding is not modelled.         *)
(*                                                                         *)
(* Evaluation.  The arithmetic is written as functions applied to tuples   *)
(* and every array is built by Array, so that each intermediate value is   *)
(* computed once, as the code computes it once.                            *)
(***************************************************************************)
EXTENDS Integers, Sequences, FiniteSets, TLC

---------------------------------------------------------------------------
(* Exact arithmetic *)

Abs(i) == IF i < 0 THEN -i ELSE i

Min2(a, b) == IF a < b THEN a ELSE b

Int3 == Int \X Int \X Int

GCDF[p \in Nat \X Nat] == IF p[2] = 0 THEN p[1] ELSE GCDF[<<p[2], p[1] % p[2]>>]
GCD(a, b) == GCDF[<<a, b>>]

P10 == <<1, 10, 100, 1000, 10000, 100000, 1000000, 10000000, 100000000, 1000000000>>
\* 10^k, 0 <= k <= 9
Pow10(k) == P10[k + 1]

\* n / d * 10^e with d coprime to 2 and 5 (2s and 5s moved into n and e)
Odd10F[t \in Int3] ==
    IF t[2] % 10 = 0 THEN Odd10F[<<t[1], t[2] \div 10, t[3] - 1>>]
    ELSE IF t[2] % 2 = 0 THEN Odd10F[<<t[1] * 5, t[2] \div 2, t[3] - 1>>]
    ELSE IF t[2] % 5 = 0 THEN Odd10F[<<t[1] * 2, t[2] \div 5, t[3] - 1>>]
    ELSE t

\* trailing decimal zeros of n # 0 moved into e
Strip10F[t \in Int3] ==
    IF t[1] % 10 = 0 THEN Strip10F[<<t[1] \div 10, t[2], t[3] + 1>>] ELSE t

\* n / d with the common factor g taken out and d made positive
ReduceF[q \in Int \X Int3] ==
    LET g == q[1]
        t == q[2]
    IN  IF t[2] < 0 THEN <<(-t[1]) \div g, (-t[2]) \div g, t[3]>>
        ELSE <<t[1] \div g, t[2] \div g, t[3]>>

\* canonical form of n / d * 10^e, d # 0
NormF[t \in Int3] ==
    IF t[1] = 0 THEN <<0, 1, 0>>
    ELSE IF t[2] = 1 THEN Strip10F[t]
    ELSE Strip10F[Odd10F[ReduceF[<<GCD(Abs(t[1]), Abs(t[2])), t>>]]]
Norm(n, d, e) == NormF[<<n, d, e>>]

Zero == <<0, 1, 0>>
One == <<1, 1, 0>>

\* the decimal literal n * 10^e
Dec(n, e) == Norm(n, 1, e)

NegF[a \in Int3] == <<-a[1], a[2], a[3]>>
AbsF[a \in Int3] == <<Abs(a[1]), a[2], a[3]>>
SignF[a \in Int3] == IF a[1] > 0 THEN 1 ELSE IF a[1] < 0 THEN -1 ELSE 0
IsZero(a) == SignF[a] = 0
Sign(a) == SignF[a]
Neg(a) == NegF[a]
AbsN(a) == AbsF[a]

\* a * b with the cross factors g1 = gcd(a.n, b.d), g2 = gcd(b.n, a.d) taken out
MulCrossF[q \in Int \X Int \X Int3 \X Int3] ==
    LET g1 == q[1]
        g2 == q[2]
        a == q[3]
        b == q[4]
    IN  NormF[<<(a[1] \div g1) * (b[1] \div g2), (a[2] \div g2) * (b[2] \div g1),
                a[3] + b[3]>>]

MulF[p \in Int3 \X Int3] ==
    LET a == p[1]
        b == p[2]
    IN  IF a[1] = 0 \/ b[1] = 0 THEN Zero
        ELSE IF a[2] = 1 /\ b[2] = 1 THEN Strip10F[<<a[1] * b[1], 1, a[3] + b[3]>>]
        ELSE MulCrossF[<<GCD(Abs(a[1]), b[2]), GCD(Abs(b[1]), a[2]), a, b>>]
Mul(a, b) == MulF[<<a, b>>]

\* a + b over the common denominator (a.d / g) * b.d, g = gcd(a.d, b.d)
AddCrossF[q \in Int \X Int3 \X Int3] ==
    LET g == q[1]
        a == q[2]
        b == q[3]
        e == Min2(a[3], b[3])
    IN  NormF[<<a[1] * Pow10(a[3] - e) * (b[2] \div g)
                  + b[1] * Pow10(b[3] - e) * (a[2] \div g),
                (a[2] \div g) * b[2], e>>]

AddF[p \in Int3 \X Int3] ==
    LET a == p[1]
        b == p[2]
    IN  IF a[1] = 0 THEN b
        ELSE IF b[1] = 0 THEN a
        ELSE IF a[2] = 1 /\ b[2] = 1
        THEN (IF a[3] = b[3] THEN NormF[<<a[1] + b[1], 1, a[3]>>]
              ELSE IF a[3] < b[3]
              THEN NormF[<<a[1] + b[1] * Pow10(b[3] - a[3]), 1, a[3]>>]
              ELSE NormF[<<a[1] * Pow10(a[3] - b[3]) + b[1], 1, b[3]>>])
        ELSE AddCrossF[<<GCD(a[2], b[2]), a, b>>]
Add(a, b) == AddF[<<a, b>>]

Sub(a, b) == AddF[<<a, NegF[b]>>]

\* 1 / a, a # 0
RecipF[a \in Int3] == NormF[<<a[2], a[1], -a[3]>>]
Recip(a) == RecipF[a]

Div(a, b) == MulF[<<a, RecipF[b]>>]

\* p * 10^k < q for p, q > 0, without forming p * 10^k when it is large
ScaledLessF[t \in Int3] ==
    IF t[3] = 0 THEN t[1] < t[2]
    ELSE IF t[3] > 0
    THEN (IF t[1] > t[2] \div 10 THEN FALSE ELSE ScaledLessF[<<t[1] * 10, t[2], t[3] - 1>>])
    ELSE (IF t[2] > t[1] \div 10 THEN TRUE ELSE ScaledLessF[<<t[1], t[2] * 10, t[3] + 1>>])

\* a < b for a, b > 0
PosLessF[p \in Int3 \X Int3] ==
    ScaledLessF[<<p[1][1] * p[2][2], p[2][1] * p[1][2], p[1][3] - p[2][3]>>]

LessF[p \in Int3 \X Int3] ==
    LET sa == SignF[p[1]]
        sb == SignF[p[2]]
    IN  IF sa # sb THEN sa < sb
        ELSE IF sa = 0 THEN FALSE
        ELSE IF sa > 0 THEN PosLessF[p]
        ELSE PosLessF[<<AbsF[p[2]], AbsF[p[1]]>>]
Less(a, b) == LessF[<<a, b>>]

Leq(a, b) == ~LessF[<<b, a>>]

---------------------------------------------------------------------------
(* numpy arrays: sequences of numbers, matrices as sequences of rows *)

\* the array with the elements of the function f on 1..n
Array(f) == f \o <<>>

\* F applied to the values of e, of e1 and e2
Bind(e, F(_)) == CHOOSE r \in {F(v) : v \in {e}} : TRUE
Bind2(e1, e2, F(_, _)) == CHOOSE r \in {F(v, w) : v \in {e1}, w \in {e2}} : TRUE

SumF[p \in Seq(Int3) \X Nat] ==
    IF p[2] = 0 THEN Zero ELSE AddF[<<SumF[<<p[1], p[2] - 1>>], p[1][p[2]]>>]

Zeros(n) == Array([i \in 1..n |-> Zero])
VAdd(a, b) == Bind2(a, b, LAMBDA av, bv : Array([i \in 1..Len(av) |-> Add(av[i], bv[i])]))
VSub(a, b) == Bind2(a, b, LAMBDA av, bv : Array([i \in 1..Len(av) |-> Sub(av[i], bv[i])]))
VScale(c, a) == Bind2(c, a, LAMBDA cv, av : Array([i \in 1..Len(av) |-> Mul(cv, av[i])]))
Dot(a, b) ==
    Bind2(a, b, LAMBDA av, bv :
        SumF[<<Array([i \in 1..Len(av) |-> Mul(av[i], bv[i])]), Len(av)>>])
\* np.matmul(M, v)
MatVec(M, v) == Bind2(M, v, LAMBDA Mv, vv : Array([i \in 1..Len(Mv) |-> Dot(Mv[i], vv)]))
\* np.matmul(A, B)
MatMul(A, B) ==
    Bind2(A, B, LAMBDA Av, Bv :
        Array([i \in 1..Len(Av) |->
            Array([j \in 1..Len(Bv[1]) |->
                Dot(Av[i], Array([k \in 1..Len(Bv) |-> Bv[k][j]]))])]))
\* x[idx] for a list idx of 0-based indices
Take(x, idx) ==
    Bind2(x, idx, LAMBDA xv, iv : Array([i \in 1..Len(iv) |-> xv[iv[i] + 1]]))
\* x with x[idx] = v
Put(x, idx, v) ==
    Bind2(x, v, LAMBDA xv, vv :
        Array([i \in 1..Len(xv) |->
            IF \E k \in 1..Len(idx) : idx[k] + 1 = i
            THEN vv[CHOOSE k \in 1..Len(idx) : idx[k] + 1 = i]
            ELSE xv[i]]))

---------------------------------------------------------------------------
(* math.sin, math.cos: exact on the angles the model uses.  A35 stands for *)
(* atan(3/4) (sin 0.6, cos 0.8) and A45 for atan(4/3) (sin 0.8, cos 0.6).  *)

A35 == Dec(6435, -4)
A45 == Dec(9273, -4)
AngleDom == {Zero, A35, A45, Neg(A35)}

Sin(a) ==
    CASE a = Zero -> Zero
      [] a = A35 -> Dec(6, -1)
      [] a = A45 -> Dec(8, -1)
      [] a = Neg(A35) -> Dec(-6, -1)

Cos(a) ==
    CASE a = Zero -> One
      [] a = A35 -> Dec(8, -1)
      [] a = A45 -> Dec(6, -1)
      [] a = Neg(A35) -> Dec(8, -1)

Tan(a) == Div(Sin(a), Cos(a))

---------------------------------------------------------------------------
(* from dynamics import *: the base class Dynamics and the frame helpers   *)

\* body-to-inertial rotation for ypr = (yaw, pitch, roll)
Q_BI(ypr) ==
    Bind(<<Cos(ypr[1]), Sin(ypr[1]), Cos(ypr[2]), Sin(ypr[2]), Cos(ypr[3]), Sin(ypr[3])>>,
         LAMBDA t :
            LET cy == t[1]  sy == t[2]
                cp == t[3]  sp == t[4]
                cr == t[5]  sr == t[6]
            IN  << << Mul(cy, cp),
                      Sub(Mul(Mul(cy, sp), sr), Mul(sy, cr)),
                      Add(Mul(Mul(cy, sp), cr), Mul(sy, sr)) >>,
                   << Mul(sy, cp),
                      Add(Mul(Mul(sy, sp), sr), Mul(cy, cr)),
                      Sub(Mul(Mul(sy, sp), cr), Mul(cy, sr)) >>,
                   << Neg(sp), Mul(cp, sr), Mul(cp, cr) >> >>)

\* inertial-to-body rotation: the transpose of Q_BI
Q_IB(ypr) ==
    Bind(Q_BI(ypr), LAMBDA R : Array([i \in 1..3 |-> Array([j \in 1..3 |-> R[j][i]])]))

\* Euler-angle-rate transform, singular where cos(ypr[2]) = 0
W_inv(ypr) ==
    Bind(<<Sin(ypr[1]), Cos(ypr[1]), Tan(ypr[2]), Cos(ypr[2])>>,
         LAMBDA t :
            LET s1 == t[1]  c1 == t[2]
                t2 == t[3]  c2 == t[4]
            IN  << << One, Mul(s1, t2), Mul(c1, t2) >>,
                   << Zero, c1, Neg(s1) >>,
                   << Zero, Div(s1, c2), Div(c1, c2) >> >>)

\* Dynamics.__init__: the fields the base class keeps
Dynamics_init(dt, x_dim, u_dim, x_noise, u_noise) ==
    IF ~Less(Zero, dt)
    THEN [err |-> "InvalidParameterError"]
    ELSE [err |-> "none", dt |-> dt, x_dim |-> x_dim, u_dim |-> u_dim,
          x_noise |-> x_noise, u_noise |-> u_noise]

\* Dynamics._enforce_dimension: TRUE when both lengths fit
_enforce_dimension(self, x, u) == Len(x) = self.x_dim /\ Len(u) = self.u_dim

---------------------------------------------------------------------------
(* class IonoCraft *)

NoObject == [err |-> "unbuilt"]

\* IonoCraft.__init__
IonoCraft_init(dt, threeinput, m, L, Ixx, Iyy, Izz, angle, x_noise, u_noise) ==
    LET base == Dynamics_init(dt, 15, IF threeinput THEN 3 ELSE 4, x_noise, u_noise)
        g == Dec(981, -2)
    IN  IF base.err # "none" THEN base
        ELSE [err |-> "none",
              dt |-> base.dt, x_dim |-> base.x_dim, u_dim |-> base.u_dim,
              x_noise |-> base.x_noise, u_noise |-> base.u_noise,
              idx_xyz |-> <<0, 1, 2>>, idx_xyz_dot |-> <<3, 4, 5>>,
              idx_ptp |-> <<6, 7, 8>>, idx_ptp_dot |-> <<9, 10, 11>>,
              idx_xyz_ddot |-> <<12, 13, 14>>,
              m |-> m, L |-> L, threeinput |-> threeinput, angle |-> angle,
              Ixx |-> Ixx, Iyy |-> Iyy, Izz |-> Izz, g |-> g,
              Ib |-> << <<Ixx, Zero, Zero>>, <<Zero, Iyy, Zero>>, <<Zero, Zero, Izz>> >>,
              u_e |-> IF threeinput
                      THEN <<Mul(m, g), Zero, Zero>>
                      ELSE VScale(Div(Mul(m, g), Dec(4, 0)), <<One, One, One, One>>),
              _hover_mats |-> << <<One, One, One, One>>,
                                 <<Neg(One), Neg(One), One, One>>,
                                 <<Neg(One), One, One, Neg(One)>> >>]

lowerbound == Zero
upperbound == Dec(500, -6)

\* np.clip of one entry
Clip1(v, lo, hi) == IF Less(v, lo) THEN lo ELSE IF Less(hi, v) THEN hi ELSE v

\* a clip that forgets the lower bound
_enforce_input_range_upper_only(input) ==
    Bind(input, LAMBDA iv :
        Array([i \in 1..Len(iv) |-> IF Less(upperbound, iv[i]) THEN upperbound ELSE iv[i]]))

\* IonoCraft._enforce_input_range
_enforce_input_range(input) ==
    Bind(input, LAMBDA iv :
        Array([i \in 1..Len(iv) |-> Clip1(iv[i], lowerbound, upperbound)]))

\* a mixing matrix whose torque_y row has one sign slipped
force2thrust_torque_sign_slip(self, angle) ==
    Bind(<<Sin(angle), Cos(angle), Mul(self.L, Sin(angle)), Mul(self.L, Cos(angle))>>,
         LAMBDA t :
            LET s == t[1]
                c == t[2]
                Ls == t[3]
                Lc == t[4]
            IN  << << Zero, s, Zero, Neg(s) >>,
                   << Neg(s), Zero, s, Zero >>,
                   << c, c, c, c >>,
                   << Neg(Ls), Ls, Neg(Ls), Ls >>,
                   << Neg(Lc), Lc, Lc, Lc >>,
                   << Lc, Neg(Lc), Neg(Lc), Lc >> >>)

\* IonoCraft.force2thrust_torque
force2thrust_torque(self, angle) ==
    Bind(<<Sin(angle), Cos(angle), Mul(self.L, Sin(angle)), Mul(self.L, Cos(angle))>>,
         LAMBDA t :
            LET s == t[1]
                c == t[2]
                Ls == t[3]
                Lc == t[4]
            IN  << << Zero, s, Zero, Neg(s) >>,
                   << Neg(s), Zero, s, Zero >>,
                   << c, c, c, c >>,
                   << Neg(Ls), Ls, Neg(Ls), Ls >>,
                   << Neg(Lc), Neg(Lc), Lc, Lc >>,
                   << Lc, Neg(Lc), Neg(Lc), Lc >> >>)

\* a three-input expansion that does not share the thrust among the four
ThrusterForm_unshared(self, u) ==
    VAdd(VAdd(VScale(u[1], self._hover_mats[1]),
              VScale(Div(Mul(u[2], self.L), Dec(4, 0)), self._hover_mats[2])),
         VScale(Div(Mul(u[3], self.L), Dec(4, 0)), self._hover_mats[3]))

\* the three-input command as four thruster commands
ThrusterForm(self, u) ==
    VAdd(VAdd(VScale(Div(u[1], Dec(4, 0)), self._hover_mats[1]),
              VScale(Div(Mul(u[2], self.L), Dec(4, 0)), self._hover_mats[2])),
         VScale(Div(Mul(u[3], self.L), Dec(4, 0)), self._hover_mats[3]))

\* np.linalg.inv of the diagonal inertia tensor (all diagonal entries # 0)
InvDiag(Ib) ==
    Array([i \in 1..3 |-> Array([j \in 1..3 |-> IF i = j THEN Recip(Ib[i][i]) ELSE Zero])])

Singular(Ib) == \E i \in 1..3 : IsZero(Ib[i][i])

\* the skew-symmetric matrix of omega
omega_mat(omega) ==
    << << Zero, Neg(omega[3]), omega[2] >>,
       << omega[3], Zero, Neg(omega[1]) >>,
       << Neg(omega[2]), omega[1], Zero >> >>

\* the z-scores the model lets the random source yield for a vector of n
ZScores(n) ==
    { Array([i \in 1..n |-> One]),
      Array([i \in 1..n |-> IF i % 2 = 1 THEN One ELSE Neg(One)]) }

\* a draw that ignores the configured standard deviation
normal_unit_scale(scale, n) == ZScores(n)

\* np.random.normal(loc=0, scale=scale, size=n): the vectors it can return
normal(scale, n) == { VScale(scale, z) : z \in ZScores(n) }

\* u = u + u_noise_vec: the new array bound to u, and the caller's array
AddInputNoise(u, u_noise_vec) ==
    [local |-> VAdd(u, u_noise_vec), caller |-> u]

\* an update written into the caller's array (x0 += ...)
StateUpdate_in_place(x0, dt, xdot, x_noise_vec) ==
    Bind(VAdd(VAdd(x0, VScale(dt, xdot)), x_noise_vec),
         LAMBDA x1 : [local |-> x1, caller |-> x1])

\* x1 = x0 + dt*xdot + x_noise_vec: the new array, and the caller's array
StateUpdate(x0, dt, xdot, x_noise_vec) ==
    [local |-> VAdd(VAdd(x0, VScale(dt, xdot)), x_noise_vec), caller |-> x0]

\* accelerations added to what the integration left there (+= for =)
WriteAccelerations_accumulate(x1, idx_xyz_ddot, g, F_global, m) ==
    Put(x1, idx_xyz_ddot,
        VAdd(Take(x1, idx_xyz_ddot),
             VAdd(<<Zero, Zero, Neg(g)>>, VScale(Recip(m), F_global))))

\* x1[idx_xyz_ddot] = np.array([0, 0, -g]) + (F_global/m)
WriteAccelerations(x1, idx_xyz_ddot, g, F_global, m) ==
    Put(x1, idx_xyz_ddot, VAdd(<<Zero, Zero, Neg(g)>>, VScale(Recip(m), F_global)))

\* a snap with the threshold 1e-16
SnapSmall_1e16(x1) ==
    Bind(x1, LAMBDA xv :
        Array([i \in 1..Len(xv) |->
            IF Less(AbsN(xv[i]), Dec(1, -16)) THEN Zero ELSE xv[i]]))

\* x1[np.abs(x1) < 1e-15] = 0
SnapSmall(x1) ==
    Bind(x1, LAMBDA xv :
        Array([i \in 1..Len(xv) |->
            IF Less(AbsN(xv[i]), Dec(1, -15)) THEN Zero ELSE xv[i]]))

\* a call that raised `kind` after `draws` calls of np.random.normal
Raised(kind, draws, self, x, u) ==
    [kind |-> kind, val |-> <<>>, draws |-> draws, u_thrusters |-> <<>>,
     u_clipped |-> <<>>, T_tau |-> <<>>, xdot |-> <<>>, x1_integrated |-> <<>>,
     self |-> self, x_caller |-> x, u_caller |-> u]

\* the derivative of the 15 components (the last three stay 0)
Derivative(self, x0, ypr, T_tau_thrusters) ==
    Bind2(<<Q_BI(ypr), Q_IB(ypr), W_inv(ypr), InvDiag(self.Ib)>>,
          <<Take(x0, self.idx_xyz_dot), Take(x0, self.idx_ptp_dot)>>,
          LAMBDA mats, vecs :
            LET m == self.m
                v == vecs[1]
                omega == vecs[2]
                Tau == <<T_tau_thrusters[6], T_tau_thrusters[5], T_tau_thrusters[4]>>
                T3 == SubSeq(T_tau_thrusters, 1, 3)
                F_ext == VSub(MatVec(mats[2], <<Zero, Zero, Mul(m, self.g)>>), T3)
                xdot_xyz == MatVec(mats[1], v)
                xdot_ptp == MatVec(mats[3], omega)
                xdot_v == VSub(VScale(Recip(m), F_ext), MatVec(omega_mat(omega), v))
                xdot_w == VSub(MatVec(mats[4], Tau),
                               MatVec(MatMul(mats[4], omega_mat(omega)),
                                      MatVec(self.Ib, omega)))
            IN  xdot_xyz \o xdot_v \o xdot_ptp \o xdot_w \o <<Zero, Zero, Zero>>)

\* body of IonoCraft.simulate after the dimension check; u_noise_vec and
\* x_noise_vec are what the two np.random.normal calls return
SimulateBody(self, x, u_arg, u_noise_vec, x_noise_vec) ==
    Bind2(Take(x, self.idx_ptp), AddInputNoise(u_arg, u_noise_vec), LAMBDA ypr, un :
    Bind(IF self.threeinput THEN ThrusterForm(self, un.local) ELSE un.local, LAMBDA u1 :
    Bind(_enforce_input_range(u1), LAMBDA u :
    Bind(MatVec(force2thrust_torque(self, self.angle), u), LAMBDA T_tau_thrusters :
    Bind2(MatVec(Q_BI(ypr), SubSeq(T_tau_thrusters, 1, 3)),
          Derivative(self, x, ypr, T_tau_thrusters), LAMBDA F_global, xdot :
    Bind(StateUpdate(x, self.dt, xdot, x_noise_vec), LAMBDA upd :
    Bind(SnapSmall(WriteAccelerations(upd.local, self.idx_xyz_ddot, self.g,
                                      F_global, self.m)), LAMBDA x1 :
        [kind |-> "ok", val |-> x1, draws |-> 2, u_thrusters |-> u1,
         u_clipped |-> u, T_tau |-> T_tau_thrusters, xdot |-> xdot,
         x1_integrated |-> upd.local, self |-> self,
         x_caller |-> upd.caller, u_caller |-> un.caller])))))))

\* a simulate that draws the input noise before it checks the dimensions
simulate_noise_first(self, x, u, u_noise_vec, x_noise_vec) ==
    IF ~_enforce_dimension(self, x, u)
    THEN Raised("DimensionMismatchError", 1, self, x, u)
    ELSE IF IsZero(self.m) THEN Raised("ZeroDivisionError", 1, self, x, u)
    ELSE IF Singular(self.Ib) THEN Raised("LinAlgError", 1, self, x, u)
    ELSE SimulateBody(self, x, u, u_noise_vec, x_noise_vec)

\* IonoCraft.simulate
simulate(self, x, u, u_noise_vec, x_noise_vec) ==
    IF ~_enforce_dimension(self, x, u)
    THEN Raised("DimensionMismatchError", 0, self, x, u)
    ELSE IF IsZero(self.m) THEN Raised("ZeroDivisionError", 1, self, x, u)
    ELSE IF Singular(self.Ib) THEN Raised("LinAlgError", 1, self, x, u)
    ELSE SimulateBody(self, x, u, u_noise_vec, x_noise_vec)

---------------------------------------------------------------------------
(* The program as a state machine: one IonoCraft is built, then stepped.   *)

VARIABLES
    obj,    \* the IonoCraft instance, NoObject before construction
    ctor,   \* the arguments the constructor was called with
    call,   \* the arguments of the last simulate call and what the random source gave it
    res,    \* the outcome of the last simulate call
    chain,  \* how many calls in a row were fed the previous call's return value
    log     \* the completed calls the observer still remembers

vars == <<obj, ctor, call, res, chain, log>>

NoCall == [x |-> <<>>, u |-> <<>>, u_noise_vec |-> <<>>, x_noise_vec |-> <<>>]
NoRes == Raised("none", 0, NoObject, <<>>, <<>>)
NoArgs == [dt |-> Zero]

MaxChain == 2
MaxLog == 3

Params(dt, threeinput, m, L, Ixx, Iyy, Izz, angle, x_noise, u_noise) ==
    [dt |-> dt, threeinput |-> threeinput, m |-> m, L |-> L, Ixx |-> Ixx,
     Iyy |-> Iyy, Izz |-> Izz, angle |-> angle, x_noise |-> x_noise,
     u_noise |-> u_noise]

Build(p) ==
    IonoCraft_init(p.dt, p.threeinput, p.m, p.L, p.Ixx, p.Iyy, p.Izz, p.angle,
                   p.x_noise, p.u_noise)

\* the last `keep` entries of the log with rec appended
Remember(rec, keep) ==
    LET l == Append(log, rec)
    IN  IF Len(l) > keep THEN SubSeq(l, Len(l) - keep + 1, Len(l)) ELSE l

Init ==
    /\ obj = NoObject
    /\ ctor = NoArgs
    /\ call = NoCall
    /\ res = NoRes
    /\ chain = 0
    /\ log = <<>>

\* model = IonoCraft(dt, ...), with the arguments drawn from PS
Construct(PS) ==
    /\ obj = NoObject
    /\ \E p \in PS :
        /\ obj' = Build(p)
        /\ ctor' = p
    /\ UNCHANGED <<call, res, chain, log>>

\* one simulate call on arguments x, u
DoCall(x, u, keep) ==
    \E u_noise_vec \in normal(obj.u_noise, obj.u_dim) :
      \E x_noise_vec \in normal(obj.x_noise, obj.x_dim) :
        LET r == simulate(obj, x, u, u_noise_vec, x_noise_vec)
        IN  /\ res' = r
            /\ obj' = r.self
            /\ call' = [x |-> x, u |-> u, u_noise_vec |-> u_noise_vec,
                        x_noise_vec |-> x_noise_vec]
            /\ log' = Remember([x |-> x, u |-> u, kind |-> r.kind, val |-> r.val], keep)
            /\ UNCHANGED ctor

\* model.simulate(x, u) on a state and an input the caller supplies
Step(XS, US, keep) ==
    /\ obj.err = "none"
    /\ \E x \in XS, u \in US : DoCall(x, u, keep)
    /\ chain' = 0

\* model.simulate(x, model.u_e) on a state the caller supplies
Hold(XS) ==
    /\ obj.err = "none"
    /\ \E x \in XS : DoCall(x, obj.u_e, 0)
    /\ chain' = 0

\* model.simulate(x1, model.u_e) on the state the previous call returned
HoldAgain ==
    /\ obj.err = "none"
    /\ res.kind = "ok"
    /\ chain < MaxChain
    /\ \A i \in 1..3 : Take(res.val, obj.idx_ptp)[i] \in AngleDom
    /\ DoCall(res.val, obj.u_e, 0)
    /\ chain' = chain + 1

---------------------------------------------------------------------------
(* Arguments the specifications draw from *)

dt10ms == Dec(1, -2)
m_default == Dec(67, -6)
L_default == Dec(1, -2)
Ixx_default == Dec(55833, -14)
Iyy_default == Dec(55833, -14)
Izz_default == Dec(11167, -13)

Default3 == Params(dt10ms, TRUE, m_default, L_default, Ixx_default, Iyy_default,
                   Izz_default, Zero, Zero, Zero)
Default4 == [Default3 EXCEPT !.threeinput = FALSE]
Canted3 == [Default3 EXCEPT !.angle = A35]
Canted4 == [Default4 EXCEPT !.angle = A35]
\* round inertia entries keep the noisy sums within the model's integers
Round3 == [Default3 EXCEPT !.Ixx = Dec(5, -10), !.Iyy = Dec(5, -10), !.Izz = Dec(1, -9)]
Noisy3 == [Round3 EXCEPT !.x_noise = Dec(1, -4), !.u_noise = Dec(1, -5)]
Noisy4 == [Round3 EXCEPT !.threeinput = FALSE, !.angle = A35,
                         !.x_noise = Dec(1, -4), !.u_noise = Dec(1, -5)]
ProcessNoisy3 == [Round3 EXCEPT !.x_noise = Dec(1, -4)]
Heavy3 == [Default3 EXCEPT !.m = Dec(3, -4)]
Heavy4 == [Default4 EXCEPT !.m = Dec(3, -4)]
NegMass3 == [Default3 EXCEPT !.m = Dec(-67, -6)]
ZeroMass4 == [Default4 EXCEPT !.m = Zero]
ZeroIxx3 == [Default3 EXCEPT !.Ixx = Zero]
NegIzz4 == [Default4 EXCEPT !.Izz = Dec(-11167, -13)]
NegIyy3 == [Canted3 EXCEPT !.Iyy = Dec(-55833, -14)]
ZeroDt3 == [Default3 EXCEPT !.dt = Zero]
NegDt4 == [Default4 EXCEPT !.dt = Dec(-1, -2)]

Xhover == Zeros(15)
Xgen == << Dec(1, 0), Dec(2, 0), Dec(3, 0), Dec(1, -1), Dec(-2, -1), Dec(3, -1),
           A35, A35, Zero, Dec(1, 0), Dec(2, 0), Dec(-1, 0),
           Dec(5, 0), Dec(6, 0), Dec(7, 0) >>
\* Xgen with other acceleration components
XgenAcc == [Xgen EXCEPT ![13] = Dec(-4, 0), ![14] = Zero, ![15] = Dec(1, -2)]
\* components below, at and above the 1e-15 threshold
Xtiny == [Xhover EXCEPT ![1] = Dec(1, -16), ![2] = Dec(1, -15), ![3] = Dec(-5, -16),
                        ![7] = A35, ![13] = Dec(1, -16)]
Xshort == SubSeq(Xgen, 1, 14)
\* level and at rest, at several positions
Xrest1 == [Xhover EXCEPT ![1] = Dec(1, 0), ![2] = Dec(-2, 0), ![3] = Dec(3, 0)]
Xrest2 == [Xhover EXCEPT ![3] = Dec(15, -1), ![13] = Dec(2, 0), ![15] = Dec(-981, -2)]
Xrest3 == [Xhover EXCEPT ![1] = Dec(-25, -2), ![15] = Dec(1, 0)]

XsMain == {Xhover, Xgen, Xtiny, Xshort}
XsNoise == {Xgen, XgenAcc, Xshort}
XsDet == {Xhover, Xgen}
XsTrim == {Xhover, Xrest1, Xrest2, Xrest3}

U3s == { <<Dec(5, -4), Zero, Zero>>,
         <<Dec(5, -4), Dec(1, -3), Dec(-2, -3)>>,
         <<Dec(2, -3), Zero, Zero>>,
         <<Dec(2, -2), Zero, Zero>>,
         <<Dec(19, -4), Dec(2, -2), Zero>> }
U4s == { <<Dec(5, -4), Dec(5, -4), Dec(5, -4), Dec(5, -4)>>,
         <<Dec(5, -3), Dec(5, -3), Dec(5, -3), Dec(5, -3)>>,
         <<Dec(1, -4), Dec(2, -4), Dec(6, -4), Dec(-1, -4)>> }
UsMain == U3s \cup U4s
UsNoise == { <<Dec(5, -4), Dec(1, -3), Dec(-2, -3)>>,
             <<Dec(2, -2), Zero, Zero>>,
             <<Dec(5, -3), Dec(5, -3), Dec(5, -3), Dec(5, -3)>>,
             <<Dec(1, -4), Dec(2, -4), Dec(6, -4), Dec(-1, -4)>> }
UsDet == { <<Dec(5, -4), Zero, Zero>>, <<Dec(5, -4), Dec(1, -3), Dec(-2, -3)>> }

---------------------------------------------------------------------------
(* Specifications *)

\* zero-noise models stepped on supplied states and inputs
Next ==
    \/ Construct({Default3, Default4, Canted3, Canted4})
    \/ Step(XsMain, UsMain, 0)

Spec == Init /\ [][Next]_vars

\* models with input and process noise
NextNoise ==
    \/ Construct({Noisy3, Noisy4, ProcessNoisy3})
    \/ Step(XsNoise, UsNoise, 0)

SpecNoise == Init /\ [][NextNoise]_vars

\* the observer remembers the last MaxLog calls
NextDet ==
    \/ Construct({Default3, Canted3})
    \/ Step(XsDet, UsDet, MaxLog)

SpecDet == Init /\ [][NextDet]_vars

\* any constructor arguments; the model is held at its equilibrium input
NextTrim ==
    \/ Construct({Default3, Default4, Canted3, Canted4, Heavy3, Heavy4, NegMass3,
                  ZeroMass4, ZeroIxx3, NegIzz4, NegIyy3, ZeroDt3, NegDt4})
    \/ Hold(XsTrim)
    \/ HoldAgain

SpecTrim == Init /\ [][NextTrim]_vars

---------------------------------------------------------------------------
(* The claims *)

Called == res.kind # "none"
ZeroNoise == obj.x_noise = Zero /\ obj.u_noise = Zero
ModeDim == IF obj.threeinput THEN 3 ELSE 4
RightDims == Len(call.x) = 15 /\ Len(call.u) = ModeDim
Eps15 == Dec(1, -15)
Bound500 == Dec(500, -6)
InRange(v) == Leq(Zero, v) /\ Leq(v, Bound500)
Clamped(v) == IF Less(v, Zero) THEN Zero ELSE IF Less(Bound500, v) THEN Bound500 ELSE v
ClampedVec(w) == [i \in 1..Len(w) |-> Clamped(w[i])] \o <<>>
Quad(q) == <<q, q, q, q>>

\* C1: a simulate call whose state vector is not of length 15, or whose input
\* vector is not of the mode's length (3 or 4), raises DimensionMismatchError
\* before anything else: no noise sample has been drawn, no state is returned.
C1_DimensionCheckFirst ==
    (Called /\ ~RightDims) =>
        /\ res.kind = "DimensionMismatchError"
        /\ res.draws = 0
        /\ res.val = <<>>

C1_Witness ==
    /\ res.kind = "DimensionMismatchError"
    /\ obj.threeinput
    /\ Len(call.x) = 15
    /\ Len(call.u) = 4

\* C3: every actuator command fed to the wrench computation lies in
\* [0, 500e-6]; with zero noise, an input whose pre-clip commands clamp to the
\* same four values gives the same next state from the same state (so ten
\* times the bound gives what the bound gives); no in-dimension call is
\* rejected.
C3_HardClamp ==
    /\ (Called /\ RightDims) => res.kind = "ok"
    /\ res.kind = "ok" =>
        /\ \A i \in 1..4 : InRange(res.u_clipped[i])
        /\ res.u_clipped = ClampedVec(res.u_thrusters)
        /\ ZeroNoise =>
            \A u2 \in UsMain :
                Len(u2) = ModeDim =>
                    Bind(simulate(obj, call.x, u2, Zeros(ModeDim), Zeros(15)),
                         LAMBDA r2 :
                            ClampedVec(r2.u_thrusters) = ClampedVec(res.u_thrusters)
                                => r2.kind = "ok" /\ r2.val = res.val)

C3_Witness ==
    /\ res.kind = "ok"
    /\ ~obj.threeinput
    /\ call.u = Quad(Dec(5000, -6))
    /\ res.u_clipped = Quad(Bound500)
    /\ res.val = simulate(obj, call.x, Quad(Bound500), Zeros(4), Zeros(15)).val

\* C5: in three-input mode with zero input noise a command (T, 0, 0) becomes
\* four thruster commands T/4, the three actuator torques are zero, and the
\* returned state is the one a four-input model with the same parameters
\* returns for (T/4, T/4, T/4, T/4) from the same state.
C5_ModeEquivalence ==
    (res.kind = "ok" /\ obj.threeinput /\ obj.u_noise = Zero
        /\ call.u[2] = Zero /\ call.u[3] = Zero) =>
        Bind2(Div(call.u[1], Dec(4, 0)), Build([ctor EXCEPT !.threeinput = FALSE]),
              LAMBDA q, twin :
                /\ res.u_thrusters = Quad(q)
                /\ res.T_tau[4] = Zero /\ res.T_tau[5] = Zero /\ res.T_tau[6] = Zero
                /\ Bind(simulate(twin, call.x, Quad(q), Zeros(4), call.x_noise_vec),
                        LAMBDA r4 : r4.kind = "ok" /\ r4.val = res.val))

C5_Witness ==
    /\ res.kind = "ok"
    /\ obj.threeinput
    /\ obj.angle = A35
    /\ call.u = <<Dec(5, -4), Zero, Zero>>
    /\ call.x = Xgen

\* C6: every component of a returned state is exactly 0 or of magnitude at
\* least 1e-15, and a component that is 1e-16 in magnitude after integration
\* is returned as exactly 0.
C6_Snapped ==
    res.kind = "ok" =>
        /\ \A i \in 1..15 : res.val[i] = Zero \/ ~Less(AbsN(res.val[i]), Eps15)
        /\ \A i \in 1..12 :
            AbsN(res.x1_integrated[i]) = Dec(1, -16) => res.val[i] = Zero

C6_Witness ==
    /\ res.kind = "ok"
    /\ res.x1_integrated[1] = Dec(1, -16)
    /\ res.val[1] = Zero
    /\ res.val[2] = Eps15

\* C9: simulate leaves the model as the constructor made it and does not
\* modify the state and input vectors the caller passed.
C9_OnlyReturnValue ==
    /\ obj.err = "none" => obj = Build(ctor)
    /\ Called => res.x_caller = call.x /\ res.u_caller = call.u

C9_Witness ==
    /\ res.kind = "ok"
    /\ call.x = Xgen
    /\ res.val # call.x
    /\ res.u_clipped # call.u

\* C10: in three-input mode with cant angle 0, zero input noise and no thruster
\* command outside [0, 500e-6], an input (c, p, r) gives thrust_z = c,
\* thrust_x = thrust_y = torque_z = 0, torque_y = L*L*p and |torque_x| = L*L*|r|.
C10_Decoupled ==
    (res.kind = "ok" /\ obj.threeinput /\ obj.angle = Zero /\ obj.u_noise = Zero
        /\ \A i \in 1..4 : InRange(res.u_thrusters[i])) =>
        Bind(Mul(obj.L, obj.L), LAMBDA LL :
            /\ res.T_tau[3] = call.u[1]
            /\ res.T_tau[1] = Zero /\ res.T_tau[2] = Zero /\ res.T_tau[4] = Zero
            /\ res.T_tau[5] = Mul(LL, call.u[2])
            /\ AbsN(res.T_tau[6]) = Mul(LL, AbsN(call.u[3])))

C10_Witness ==
    /\ res.kind = "ok"
    /\ obj.threeinput
    /\ obj.angle = Zero
    /\ call.u = <<Dec(5, -4), Dec(1, -3), Dec(-2, -3)>>
    /\ \A i \in 1..4 : InRange(res.u_thrusters[i])
    /\ res.T_tau[5] # Zero
    /\ res.T_tau[6] # Zero

\* C7: with both noise standard deviations 0, any two remembered calls on the
\* model with the same state and the same input returned the same outcome,
\* whatever calls were made before or between them.
C7_ZeroNoiseDeterminism ==
    (obj.err = "none" /\ ZeroNoise) =>
        \A i, j \in 1..Len(log) :
            (log[i].x = log[j].x /\ log[i].u = log[j].u) =>
                (log[i].kind = log[j].kind /\ log[i].val = log[j].val)

C7_Witness ==
    /\ Len(log) = 3
    /\ log[1].kind = "ok"
    /\ Len(log[1].val) = 15
    /\ log[3].x = log[1].x
    /\ log[3].u = log[1].u
    /\ log[2].x # log[1].x
    /\ log[2].u # log[1].u

\* C8: the last three components of the returned state are
\* [0, 0, -g] + (Q_BI * thrust)/m; the whole returned state is the same when
\* only the acceleration components of the incoming state differ, and the last
\* three components are the same when the process noise is zero instead.
C8_AccelerationBookkeeping ==
    res.kind = "ok" =>
        Bind2(MatVec(Q_BI(SubSeq(call.x, 7, 9)), SubSeq(res.T_tau, 1, 3)),
              <<[call.x EXCEPT ![13] = Zero, ![14] = Dec(7, 0), ![15] = Dec(-3, -1)],
                [call.x EXCEPT ![13] = Dec(981, -2), ![14] = Zero, ![15] = Zero]>>,
              LAMBDA thrust, others :
                /\ \A k \in 1..3 :
                     res.val[12 + k] =
                        Add(IF k = 3 THEN Neg(obj.g) ELSE Zero, Div(thrust[k], obj.m))
                /\ \A k \in 1..2 :
                     simulate(obj, others[k], call.u, call.u_noise_vec,
                              call.x_noise_vec).val = res.val
                /\ SubSeq(simulate(obj, call.x, call.u, call.u_noise_vec,
                                   Zeros(15)).val, 13, 15)
                     = SubSeq(res.val, 13, 15))

C8_Witness ==
    /\ res.kind = "ok"
    /\ call.x = XgenAcc
    /\ obj.x_noise # Zero
    /\ call.x_noise_vec[13] # Zero
    /\ res.val[1] # simulate(obj, call.x, call.u, call.u_noise_vec, Zeros(15)).val[1]
    /\ SubSeq(res.val, 13, 15) # SubSeq(call.x, 13, 15)

Positive(v) == Less(Zero, v)
AllPositive(p) ==
    Positive(p.dt) /\ Positive(p.m) /\ Positive(p.Ixx) /\ Positive(p.Iyy) /\ Positive(p.Izz)

\* C2: a constructor call with a zero or negative dt, m, Ixx, Iyy or Izz fails
\* with InvalidParameterError, so no model with such a parameter exists and
\* none is ever stepped.
C2_PositivityEnforced ==
    /\ (ctor # NoArgs /\ ~AllPositive(ctor)) => obj.err = "InvalidParameterError"
    /\ Called => AllPositive(ctor)

AtRest(x) == \A i \in 4..12 : x[i] = Zero

\* C4: with zero noise, a call on a state with zero velocity, zero angular
\* velocity and zero orientation and the input u_e returns the same position,
\* zero velocities and zero orientation, and its linear-velocity derivative is
\* zero (so a run of such calls, each fed the previous output, stays put).
C4_HoverEquilibrium ==
    (res.kind = "ok" /\ ZeroNoise /\ call.u = obj.u_e /\ AtRest(call.x)) =>
        /\ SubSeq(res.val, 1, 3) = SubSeq(call.x, 1, 3)
        /\ AtRest(res.val)
        /\ \A i \in 4..6 : res.xdot[i] = Zero

=============================================================================
